---- MODULE Spec2Model ----
(***************************************************************************)
(* Model of the DHCPv6 decoder of mephesto1337/dhcpv6-parser.              *)
(*                                                                         *)
(* The decoder is a set of pure functions over a byte slice, written with  *)
(* the nom 5 parser combinators.  A parser result (nom's IResult, plus the *)
(* panic a Rust slice index or assert! can raise) is the record            *)
(*   [status, kind, rest, value]                                           *)
(*     status = "Ok"    : value decoded, rest = unconsumed input           *)
(*     status = "Err"   : nom::Err::Error((rest, ErrorKind::kind))         *)
(*     status = "Panic" : the thread panicked; kind names the panic        *)
(* Bytes are integers 0..255.  Integers wider than 24 bits do not fit      *)
(* TLC's integers, so u32, u64 and u128 values are written as the sequence *)
(* of their 16-bit limbs, most significant first (for a u128 these are the *)
(* eight segments of the Ipv6Addr built from it).                          *)
(***************************************************************************)
EXTENDS Integers, Sequences, FiniteSets, TLC

VARIABLES input, pc, result, cursor, collected, iters

vars == <<input, pc, result, cursor, collected, iters>>

\* the locals of many0's loop (its input i and its Vec acc) and the number
\* of turns the loop has taken
loop == <<cursor, collected, iters>>

----------------------------------------------------------------------------
(* Results *)

NoValue == [variant |-> "None"]

Ok(rest, v) == [status |-> "Ok", kind |-> "None", rest |-> rest, value |-> v]

Err(rest, kind) == [status |-> "Err", kind |-> kind, rest |-> rest, value |-> NoValue]

Panic(kind) == [status |-> "Panic", kind |-> kind, rest |-> <<>>, value |-> NoValue]

----------------------------------------------------------------------------
(* Slices *)

\* &s[n..] for n <= s.len()
Drop(s, n) == SubSeq(s, n + 1, Len(s))

\* &s[..n] for n <= s.len()
Prefix(s, n) == SubSeq(s, 1, n)

----------------------------------------------------------------------------
(* nom::number::complete and nom::bytes::complete *)

\* big-endian value of at most three bytes
BE(bytes) ==
    CASE Len(bytes) = 0 -> 0
      [] Len(bytes) = 1 -> bytes[1]
      [] Len(bytes) = 2 -> bytes[1] * 256 + bytes[2]
      [] Len(bytes) = 3 -> (bytes[1] * 256 + bytes[2]) * 256 + bytes[3]

\* big-endian value of 2k bytes as its k 16-bit limbs, most significant first
Limbs(bytes) ==
    [j \in 1..(Len(bytes) \div 2) |-> bytes[2 * j - 1] * 256 + bytes[2 * j]]

be_u8(i) ==
    IF Len(i) < 1 THEN Err(i, "Eof") ELSE Ok(Drop(i, 1), i[1])

be_u16(i) ==
    IF Len(i) < 2 THEN Err(i, "Eof") ELSE Ok(Drop(i, 2), BE(Prefix(i, 2)))

be_u24(i) ==
    IF Len(i) < 3 THEN Err(i, "Eof") ELSE Ok(Drop(i, 3), BE(Prefix(i, 3)))

be_u32(i) ==
    IF Len(i) < 4 THEN Err(i, "Eof") ELSE Ok(Drop(i, 4), Limbs(Prefix(i, 4)))

be_u64(i) ==
    IF Len(i) < 8 THEN Err(i, "Eof") ELSE Ok(Drop(i, 8), Limbs(Prefix(i, 8)))

be_u128(i) ==
    IF Len(i) < 16 THEN Err(i, "Eof") ELSE Ok(Drop(i, 16), Limbs(Prefix(i, 16)))

take(n, i) ==
    IF Len(i) < n THEN Err(i, "Eof") ELSE Ok(Drop(i, n), Prefix(i, n))

\* verify(p, pred) applied to i, given the result r of p on i and whether
\* pred holds of its value: the error carries the input verify was given
verify(r, holds, i) ==
    IF r.status # "Ok" THEN r
    ELSE IF holds THEN r
    ELSE Err(i, "Verify")

\* many_m_n(count, count, be_u16): with the pair error type, append keeps the
\* error of the embedded parser; a count of 0 returns at once without
\* running the embedded parser (nom 5.1)
RECURSIVE many_be_u16(_, _, _)
many_be_u16(count, i, acc) ==
    IF count = 0 THEN Ok(i, acc)
    ELSE LET r == be_u16(i)
         IN  IF r.status # "Ok" THEN r
             ELSE many_be_u16(count - 1, r.rest, Append(acc, r.value))

many_m_n_be_u16(count, i) == many_be_u16(count, i, <<>>)

----------------------------------------------------------------------------
(* utils.rs *)

parse_ipv6_address(i) == be_u128(i)

----------------------------------------------------------------------------
(* std::str::from_utf8: the well-formed byte sequences of UTF-8 *)

Cont(b) == b >= 128 /\ b <= 191

\* length of the well-formed scalar value at the head of s, 0 when there is none
Utf8Width(s) ==
    LET n == Len(s)
        b1 == s[1]
    IN  CASE n = 0 -> 0
          [] n >= 1 /\ b1 <= 127 -> 1
          [] n >= 2 /\ b1 >= 194 /\ b1 <= 223 /\ Cont(s[2]) -> 2
          [] n >= 3 /\ b1 = 224 /\ s[2] >= 160 /\ s[2] <= 191 /\ Cont(s[3]) -> 3
          [] n >= 3 /\ b1 >= 225 /\ b1 <= 236 /\ Cont(s[2]) /\ Cont(s[3]) -> 3
          [] n >= 3 /\ b1 = 237 /\ s[2] >= 128 /\ s[2] <= 159 /\ Cont(s[3]) -> 3
          [] n >= 3 /\ b1 >= 238 /\ b1 <= 239 /\ Cont(s[2]) /\ Cont(s[3]) -> 3
          [] n >= 4 /\ b1 = 240 /\ s[2] >= 144 /\ s[2] <= 191
                    /\ Cont(s[3]) /\ Cont(s[4]) -> 4
          [] n >= 4 /\ b1 >= 241 /\ b1 <= 243 /\ Cont(s[2])
                    /\ Cont(s[3]) /\ Cont(s[4]) -> 4
          [] n >= 4 /\ b1 = 244 /\ s[2] >= 128 /\ s[2] <= 143
                    /\ Cont(s[3]) /\ Cont(s[4]) -> 4
          [] OTHER -> 0

RECURSIVE from_utf8_ok(_)
from_utf8_ok(s) ==
    IF Len(s) = 0 THEN TRUE
    ELSE LET w == Utf8Width(s)
         IN  IF w = 0 THEN FALSE ELSE from_utf8_ok(Drop(s, w))

----------------------------------------------------------------------------
(* structs/options.rs: the per-option decoders.  Each is handed the input  *)
(* that follows the 2-byte option code.                                    *)

parse_dhcpv6_option_client_id(i) ==
    LET l == be_u16(i)
    IN  IF l.status # "Ok" THEN l
        ELSE LET d == take(l.value, l.rest)
             IN  IF d.status # "Ok" THEN d
                 ELSE Ok(d.rest, [variant |-> "CliendID", duid |-> d.value])

parse_dhcpv6_option_server_id(i) ==
    LET l == be_u16(i)
    IN  IF l.status # "Ok" THEN l
        ELSE LET d == take(l.value, l.rest)
             IN  IF d.status # "Ok" THEN d
                 ELSE Ok(d.rest, [variant |-> "ServerID", duid |-> d.value])

\* mutant: the minimum length compared with > instead of >=
parse_dhcpv6_option_ia_na_strict(i) ==
    LET n == be_u16(i)
        l == verify(n, n.value > 12, i)
    IN  IF l.status # "Ok" THEN l
        ELSE
        LET id == be_u32(l.rest)
        IN  IF id.status # "Ok" THEN id
            ELSE
            LET t1 == be_u32(id.rest)
            IN  IF t1.status # "Ok" THEN t1
                ELSE
                LET t2 == be_u32(t1.rest)
                IN  IF t2.status # "Ok" THEN t2
                    ELSE
                    LET o == take(l.value - 12, t2.rest)
                    IN  IF o.status # "Ok" THEN o
                        ELSE Ok(o.rest,
                                [variant |-> "IdentityAssociationForNonTemporaryAddresses",
                                 id |-> id.value, time_1 |-> t1.value,
                                 time_2 |-> t2.value, options |-> o.value])

parse_dhcpv6_option_ia_na(i) ==
    LET n == be_u16(i)
        l == verify(n, n.value >= 12, i)
    IN  IF l.status # "Ok" THEN l
        ELSE
        LET id == be_u32(l.rest)
        IN  IF id.status # "Ok" THEN id
            ELSE
            LET t1 == be_u32(id.rest)
            IN  IF t1.status # "Ok" THEN t1
                ELSE
                LET t2 == be_u32(t1.rest)
                IN  IF t2.status # "Ok" THEN t2
                    ELSE
                    LET o == take(l.value - 12, t2.rest)
                    IN  IF o.status # "Ok" THEN o
                        ELSE Ok(o.rest,
                                [variant |-> "IdentityAssociationForNonTemporaryAddresses",
                                 id |-> id.value, time_1 |-> t1.value,
                                 time_2 |-> t2.value, options |-> o.value])

parse_dhcpv6_option_ia_ta(i) ==
    LET n == be_u16(i)
        l == verify(n, n.value >= 4, i)
    IN  IF l.status # "Ok" THEN l
        ELSE
        LET id == be_u32(l.rest)
        IN  IF id.status # "Ok" THEN id
            ELSE
            LET o == take(l.value - 4, id.rest)
            IN  IF o.status # "Ok" THEN o
                ELSE Ok(o.rest,
                        [variant |-> "IdentityAssociationForTemporaryAddresses",
                         id |-> id.value, options |-> o.value])

parse_dhcpv6_option_ia(i) ==
    LET n == be_u16(i)
        l == verify(n, n.value >= 24, i)
    IN  IF l.status # "Ok" THEN l
        ELSE
        LET a == parse_ipv6_address(l.rest)
        IN  IF a.status # "Ok" THEN a
            ELSE
            LET p == be_u32(a.rest)
            IN  IF p.status # "Ok" THEN p
                ELSE
                LET v == be_u32(p.rest)
                IN  IF v.status # "Ok" THEN v
                    ELSE
                    LET o == take(l.value - 24, v.rest)
                    IN  IF o.status # "Ok" THEN o
                        ELSE Ok(o.rest,
                                [variant |-> "IdentityAssociationAddress",
                                 address |-> a.value, prefered_lifetime |-> p.value,
                                 valid_lifetime |-> v.value, options |-> o.value])

\* mutant: the length taken as the number of codes, not of bytes
parse_dhcpv6_option_option_request_unhalved(i) ==
    LET n == be_u16(i)
        l == verify(n, n.value % 2 = 0, i)
    IN  IF l.status # "Ok" THEN l
        ELSE
        LET o == many_m_n_be_u16(l.value, l.rest)
        IN  IF o.status # "Ok" THEN o
            ELSE Ok(o.rest, [variant |-> "OptionRequest", options |-> o.value])

parse_dhcpv6_option_option_request(i) ==
    LET n == be_u16(i)
        l == verify(n, n.value % 2 = 0, i)
    IN  IF l.status # "Ok" THEN l
        ELSE
        LET count == l.value \div 2
            o == many_m_n_be_u16(count, l.rest)
        IN  IF o.status # "Ok" THEN o
            ELSE Ok(o.rest, [variant |-> "OptionRequest", options |-> o.value])

\* rest[0] and &rest[1..] are unchecked slice indexing
parse_dhcpv6_option_preference(i) ==
    LET n == be_u16(i)
        l == verify(n, n.value = 1, i)
    IN  IF l.status # "Ok" THEN l
        ELSE IF Len(l.rest) < 1 THEN Panic("index out of bounds")
        ELSE Ok(Drop(l.rest, 1), [variant |-> "Preference", pref_value |-> l.rest[1]])

parse_dhcpv6_option_elapsted_time(i) ==
    LET n == be_u16(i)
        l == verify(n, n.value = 2, i)
    IN  IF l.status # "Ok" THEN l
        ELSE
        LET e == be_u16(l.rest)
        IN  IF e.status # "Ok" THEN e
            ELSE Ok(e.rest, [variant |-> "ElapstedTime", elapsed_time |-> e.value])

parse_dhcpv6_option_relay_message(i) ==
    LET l == be_u16(i)
    IN  IF l.status # "Ok" THEN l
        ELSE LET d == take(l.value, l.rest)
             IN  IF d.status # "Ok" THEN d
                 ELSE Ok(d.rest, [variant |-> "RelayMessage", data |-> d.value])

\* mutant: the replay-detection value read from &rest[2..], one byte early
parse_dhcpv6_option_authentication_shifted(i) ==
    LET n == be_u16(i)
        l == verify(n, n.value >= 11, i)
    IN  IF l.status # "Ok" THEN l
        ELSE IF Len(l.rest) < 3 THEN Panic("index out of bounds")
        ELSE
        LET r == be_u64(Drop(l.rest, 2))
        IN  IF r.status # "Ok" THEN r
            ELSE
            LET a == take(l.value - 10, r.rest)
            IN  IF a.status # "Ok" THEN a
                ELSE Ok(a.rest,
                        [variant |-> "Authentication",
                         protocol |-> l.rest[1], algorithm |-> l.rest[2],
                         rdm |-> l.rest[3], replay_detection |-> r.value,
                         authentication_information |-> a.value])

\* rest[0], rest[1], rest[2] and &rest[3..] are unchecked slice indexing
parse_dhcpv6_option_authentication(i) ==
    LET n == be_u16(i)
        l == verify(n, n.value >= 11, i)
    IN  IF l.status # "Ok" THEN l
        ELSE IF Len(l.rest) < 3 THEN Panic("index out of bounds")
        ELSE
        LET r == be_u64(Drop(l.rest, 3))
        IN  IF r.status # "Ok" THEN r
            ELSE
            LET a == take(l.value - 11, r.rest)
            IN  IF a.status # "Ok" THEN a
                ELSE Ok(a.rest,
                        [variant |-> "Authentication",
                         protocol |-> l.rest[1], algorithm |-> l.rest[2],
                         rdm |-> l.rest[3], replay_detection |-> r.value,
                         authentication_information |-> a.value])

parse_dhcpv6_option_server_unicast(i) ==
    LET n == be_u16(i)
        l == verify(n, n.value = 16, i)
    IN  IF l.status # "Ok" THEN l
        ELSE
        LET a == parse_ipv6_address(l.rest)
        IN  IF a.status # "Ok" THEN a
            ELSE Ok(a.rest, [variant |-> "ServerUnicast", address |-> a.value])

parse_dhcpv6_option_status_code(i) ==
    LET n == be_u16(i)
        l == verify(n, n.value >= 2, i)
    IN  IF l.status # "Ok" THEN l
        ELSE
        LET c == be_u16(l.rest)
        IN  IF c.status # "Ok" THEN c
            ELSE
            LET m == take(l.value - 2, c.rest)
            IN  IF m.status # "Ok" THEN m
                ELSE IF from_utf8_ok(m.value)
                     THEN Ok(m.rest, [variant |-> "StatusCode", code |-> c.value,
                                      message |-> m.value])
                     ELSE Err(m.rest, "Verify")

\* mutant: the input handed back instead of the rest after the length field
parse_dhcpv6_option_rapid_commit_unconsumed(i) ==
    LET n == be_u16(i)
        l == verify(n, n.value = 0, i)
    IN  IF l.status # "Ok" THEN l
        ELSE Ok(i, [variant |-> "RapidCommit"])

parse_dhcpv6_option_rapid_commit(i) ==
    LET n == be_u16(i)
        l == verify(n, n.value = 0, i)
    IN  IF l.status # "Ok" THEN l
        ELSE Ok(l.rest, [variant |-> "RapidCommit"])

parse_dhcpv6_option_user_class(i) ==
    LET l == be_u16(i)
    IN  IF l.status # "Ok" THEN l
        ELSE LET d == take(l.value, l.rest)
             IN  IF d.status # "Ok" THEN d
                 ELSE Ok(d.rest, [variant |-> "UserClass", data |-> d.value])

parse_dhcpv6_option_vendor_class(i) ==
    LET n == be_u16(i)
        l == verify(n, n.value >= 4, i)
    IN  IF l.status # "Ok" THEN l
        ELSE
        LET e == be_u32(l.rest)
        IN  IF e.status # "Ok" THEN e
            ELSE
            LET d == take(l.value - 4, e.rest)
            IN  IF d.status # "Ok" THEN d
                ELSE Ok(d.rest, [variant |-> "VendorClass",
                                 enterprise_number |-> e.value, data |-> d.value])

parse_dhcpv6_option_vendor_specific_information(i) ==
    LET n == be_u16(i)
        l == verify(n, n.value >= 4, i)
    IN  IF l.status # "Ok" THEN l
        ELSE
        LET e == be_u32(l.rest)
        IN  IF e.status # "Ok" THEN e
            ELSE
            LET d == take(l.value - 4, e.rest)
            IN  IF d.status # "Ok" THEN d
                ELSE Ok(d.rest, [variant |-> "VendorSpecificInformation",
                                 enterprise_number |-> e.value, data |-> d.value])

parse_dhcpv6_option_interface_id(i) ==
    LET l == be_u16(i)
    IN  IF l.status # "Ok" THEN l
        ELSE LET d == take(l.value, l.rest)
             IN  IF d.status # "Ok" THEN d
                 ELSE Ok(d.rest, [variant |-> "InterfaceID", data |-> d.value])

\* &rest[1..] and rest[0] are unchecked slice indexing
parse_dhcpv6_option_reconfigure_message(i) ==
    LET n == be_u16(i)
        l == verify(n, n.value = 1, i)
    IN  IF l.status # "Ok" THEN l
        ELSE IF Len(l.rest) < 1 THEN Panic("index out of bounds")
        ELSE Ok(Drop(l.rest, 1),
                [variant |-> "ReconfigureMessage", message_type |-> l.rest[1]])

parse_dhcpv6_option_reconfigure_accept(i) ==
    LET n == be_u16(i)
        l == verify(n, n.value = 0, i)
    IN  IF l.status # "Ok" THEN l
        ELSE Ok(l.rest, [variant |-> "ReconfigureAccept"])

\* the match on the option code
option_match(kind, rest) ==
    CASE kind = 1 -> parse_dhcpv6_option_client_id(rest)
      [] kind = 2 -> parse_dhcpv6_option_server_id(rest)
      [] kind = 3 -> parse_dhcpv6_option_ia_na(rest)
      [] kind = 4 -> parse_dhcpv6_option_ia_ta(rest)
      [] kind = 5 -> parse_dhcpv6_option_ia(rest)
      [] kind = 6 -> parse_dhcpv6_option_option_request(rest)
      [] kind = 7 -> parse_dhcpv6_option_preference(rest)
      [] kind = 8 -> parse_dhcpv6_option_elapsted_time(rest)
      [] kind = 9 -> parse_dhcpv6_option_relay_message(rest)
      [] kind = 11 -> parse_dhcpv6_option_authentication(rest)
      [] kind = 12 -> parse_dhcpv6_option_server_unicast(rest)
      [] kind = 13 -> parse_dhcpv6_option_status_code(rest)
      [] kind = 14 -> parse_dhcpv6_option_rapid_commit(rest)
      [] kind = 15 -> parse_dhcpv6_option_user_class(rest)
      [] kind = 16 -> parse_dhcpv6_option_vendor_class(rest)
      [] kind = 17 -> parse_dhcpv6_option_vendor_specific_information(rest)
      [] kind = 18 -> parse_dhcpv6_option_interface_id(rest)
      [] kind = 19 -> parse_dhcpv6_option_reconfigure_message(rest)
      [] kind = 20 -> parse_dhcpv6_option_reconfigure_accept(rest)
      [] OTHER -> Err(rest, "Switch")

\* mutant: the unassigned code 10 decoded as an opaque option
parse_dhcpv6_option_no_gap(i) ==
    LET k == be_u16(i)
    IN  IF k.status # "Ok" THEN k
        ELSE IF k.value = 10 THEN parse_dhcpv6_option_relay_message(k.rest)
        ELSE option_match(k.value, k.rest)

parse_dhcpv6_option(i) ==
    LET k == be_u16(i)
    IN  IF k.status # "Ok" THEN k
        ELSE option_match(k.value, k.rest)

\* many0(parse_dhcpv6_option): an Err::Error of the embedded parser ends the
\* loop with the options collected so far; a panic unwinds through it
RECURSIVE many0_option(_, _)

\* one turn of the loop, r being the embedded parser's result on i
many0_option_step(i, acc, r) ==
    CASE r.status = "Err" -> Ok(i, acc)
      [] r.status = "Panic" -> r
      [] OTHER -> IF r.rest = i THEN Err(i, "Many0")
                  ELSE many0_option(r.rest, Append(acc, r.value))

many0_option(i, acc) == many0_option_step(i, acc, parse_dhcpv6_option(i))

\* the ? on many0's result, then assert!(rest.len() == 0) and Ok
assert_rest_empty(r) ==
    IF r.status # "Ok" THEN r
    ELSE IF Len(r.rest) # 0 THEN Panic("assertion failed: rest.len() == 0")
    ELSE Ok(r.rest, r.value)

\* mutant: the options handed back in reverse order
assert_rest_empty_reversed(r) ==
    IF r.status # "Ok" THEN r
    ELSE IF Len(r.rest) # 0 THEN Panic("assertion failed: rest.len() == 0")
    ELSE Ok(r.rest, [j \in 1..Len(r.value) |-> r.value[Len(r.value) + 1 - j]])

\* mutant: the exact-consumption assertion left out
parse_dhcpv6_options_unasserted(i) == many0_option(i, <<>>)

\* mutant: the options collected in reverse order
parse_dhcpv6_options_reversed(i) ==
    assert_rest_empty_reversed(many0_option(i, <<>>))

parse_dhcpv6_options(i) == assert_rest_empty(many0_option(i, <<>>))

----------------------------------------------------------------------------
(* structs/message_types.rs *)

\* mutant: the discriminants counted from 0
from_u8_zero_based(b) ==
    CASE b = 0 -> "Solicit"
      [] b = 1 -> "Advertise"
      [] b = 2 -> "Request"
      [] b = 3 -> "Confirm"
      [] b = 4 -> "Renew"
      [] b = 5 -> "Rebind"
      [] b = 6 -> "Reply"
      [] b = 7 -> "Release"
      [] b = 8 -> "Decline"
      [] b = 9 -> "Reconfigure"
      [] b = 10 -> "InformationRequest"
      [] b = 11 -> "RelayForw"
      [] b = 12 -> "RelayRepl"
      [] OTHER -> "None"

\* DHCPv6MessageType::from_u8, derived from the enum's discriminants
from_u8(b) ==
    CASE b = 1 -> "Solicit"
      [] b = 2 -> "Advertise"
      [] b = 3 -> "Request"
      [] b = 4 -> "Confirm"
      [] b = 5 -> "Renew"
      [] b = 6 -> "Rebind"
      [] b = 7 -> "Reply"
      [] b = 8 -> "Release"
      [] b = 9 -> "Decline"
      [] b = 10 -> "Reconfigure"
      [] b = 11 -> "InformationRequest"
      [] b = 12 -> "RelayForw"
      [] b = 13 -> "RelayRepl"
      [] OTHER -> "None"

\* map_opt(be_u8, from_u8): the error carries the whole input
parse_dhcpv6_message_type(i) ==
    LET b == be_u8(i)
    IN  IF b.status # "Ok" THEN b
        ELSE IF from_u8(b.value) = "None" THEN Err(i, "MapOpt")
        ELSE Ok(b.rest, from_u8(b.value))

----------------------------------------------------------------------------
(* structs/header.rs *)

\* the ? on the tuple's last parser, then Ok of the header
client_server(message_type, transaction_id, o) ==
    IF o.status # "Ok" THEN o
    ELSE Ok(o.rest, [variant |-> "ClientServer", message_type |-> message_type,
                     transaction_id |-> transaction_id, options |-> o.value])

\* mutant: the transaction id read least significant byte first
parse_dhcpv6_header_client_server_le(i, message_type) ==
    LET t == be_u24(i)
    IN  IF t.status # "Ok" THEN t
        ELSE client_server(message_type, BE(<<i[3], i[2], i[1]>>),
                           parse_dhcpv6_options(t.rest))

parse_dhcpv6_header_client_server(i, message_type) ==
    LET t == be_u24(i)
    IN  IF t.status # "Ok" THEN t
        ELSE client_server(message_type, t.value, parse_dhcpv6_options(t.rest))

\* the ? on the tuple's last parser, then Ok of the header
relay_agent_server(message_type, hop_count, link_address, peer_address, o) ==
    IF o.status # "Ok" THEN o
    ELSE Ok(o.rest, [variant |-> "RelayAgentServer", message_type |-> message_type,
                     hop_count |-> hop_count, link_address |-> link_address,
                     peer_address |-> peer_address, options |-> o.value])

parse_dhcpv6_header_relay_agent_server(i, message_type) ==
    LET h == be_u8(i)
    IN  IF h.status # "Ok" THEN h
        ELSE
        LET l == parse_ipv6_address(h.rest)
        IN  IF l.status # "Ok" THEN l
            ELSE
            LET p == parse_ipv6_address(l.rest)
            IN  IF p.status # "Ok" THEN p
                ELSE relay_agent_server(message_type, h.value, l.value, p.value,
                                        parse_dhcpv6_options(p.rest))

parse_dhcpv6_header(i) ==
    LET m == parse_dhcpv6_message_type(i)
    IN  IF m.status # "Ok" THEN m
        ELSE IF m.value \in {"RelayForw", "RelayRepl"}
             THEN parse_dhcpv6_header_relay_agent_server(m.rest, m.value)
             ELSE parse_dhcpv6_header_client_server(m.rest, m.value)

----------------------------------------------------------------------------
(* Inputs: the byte buffers the decoder is applied to *)

\* largest option code enumerated (the last known code is 20)
MaxCode == 21

\* largest TLV length field enumerated densely
MaxLen == 26

\* bytes that may follow a complete TLV in an option buffer
MaxExtra == 2

\* largest number of pieces in an options region
MaxOpts == 3

\* largest number of pieces in the options region of a header buffer
MaxHdrOpts == 1

\* largest message-type byte enumerated densely (the last defined type is 13)
MaxType == 15

Min(a, b) == IF a < b THEN a ELSE b

U16(x) == <<x \div 256, x % 256>>

\* n payload bytes: seed, seed + step, ... (mod 256)
Pattern(fill, n) == [j \in 1..n |-> (fill[1] + fill[2] * (j - 1)) % 256]

\* "tuvw..." ; C3 A9 8F 75 ... (one two-byte UTF-8 scalar, then a stray
\* continuation byte) ; FF FF ...
Fills == {<<116, 1>>, <<195, 230>>, <<255, 0>>}

OptCodes == (0..MaxCode) \cup {256, 4919, 65535}

OptLens == (0..MaxLen) \cup {256, 65535}

KnownCodes == (1..9) \cup (11..20)

\* code, length field and up to MaxLen + MaxExtra bytes after them
Wire(code, L, fill) ==
    U16(code) \o U16(L) \o Pattern(fill, Min(L, MaxLen) + MaxExtra)

\* a complete TLV: code, length field, exactly L payload bytes
TLV(code, L, fill) == U16(code) \o U16(L) \o Pattern(fill, L)

\* fills of option buffers
OptionFills == {<<116, 1>>, <<195, 230>>}

OptionInputs ==
    UNION {{Prefix(Wire(c, L, f), n) : n \in 0..(4 + Min(L, MaxLen) + MaxExtra)} :
           <<c, L, f>> \in OptCodes \X OptLens \X OptionFills}

\* well-formed TLVs used to build options regions
GoodPieces ==
    {TLV(1, 2, <<116, 1>>), TLV(1, 2, <<195, 230>>), TLV(7, 1, <<116, 1>>),
     TLV(11, 12, <<116, 1>>), TLV(13, 4, <<195, 230>>), TLV(14, 0, <<116, 1>>)}

\* unknown code; violated length rule; truncated payload (codes 1, 7, 11);
\* invalid text; residual bytes
BadPieces ==
    {TLV(10, 0, <<116, 1>>), TLV(14, 1, <<116, 1>>),
     Prefix(TLV(1, 4, <<116, 1>>), 5), Prefix(TLV(7, 1, <<116, 1>>), 4),
     Prefix(TLV(11, 11, <<116, 1>>), 6), TLV(13, 5, <<195, 230>>),
     <<0>>, <<0, 1, 0>>}

RECURSIVE Concat(_)
Concat(ss) == IF Len(ss) = 0 THEN <<>> ELSE Head(ss) \o Concat(Tail(ss))

PieceSeqs(pieces, n) == UNION {[1..k -> pieces] : k \in 0..n}

RegionInputs == {Concat(ps) : ps \in PieceSeqs(GoodPieces \cup BadPieces, MaxOpts)}

MsgTypes == (0..MaxType) \cup {255}

\* bytes 1.. of a header: 33 bytes for the relay form, 3 otherwise
FixedLen(t) == IF t \in {12, 13} THEN 33 ELSE 3

HeaderInputs ==
    UNION {{<<t>> \o Pattern(f, FixedLen(t)) \o Concat(ps) :
                ps \in PieceSeqs(GoodPieces \cup BadPieces, MaxHdrOpts)}
           \cup {Prefix(<<t>> \o Pattern(f, FixedLen(t)), n) : n \in 0..FixedLen(t)} :
           <<t, f>> \in MsgTypes \X Fills}

Inputs == OptionInputs \cup RegionInputs \cup HeaderInputs

----------------------------------------------------------------------------
(* The state machine: a caller picks a buffer and applies one decoder *)

Idle == [status |-> "None", kind |-> "None", rest |-> <<>>, value |-> NoValue]

Init ==
    /\ input \in Inputs
    /\ pc = "ready"
    /\ result = Idle
    /\ cursor = <<>>
    /\ collected = <<>>
    /\ iters = 0

CallMessageType ==
    /\ pc = "ready"
    /\ pc' = "parse_dhcpv6_message_type"
    /\ result' = parse_dhcpv6_message_type(input)
    /\ UNCHANGED <<input, loop>>

CallOption ==
    /\ pc = "ready"
    /\ pc' = "parse_dhcpv6_option"
    /\ result' = parse_dhcpv6_option(input)
    /\ UNCHANGED <<input, loop>>

CallOptions ==
    /\ pc = "ready"
    /\ pc' = "parse_dhcpv6_options"
    /\ result' = parse_dhcpv6_options(input)
    /\ UNCHANGED <<input, loop>>

CallHeader ==
    /\ pc = "ready"
    /\ pc' = "parse_dhcpv6_header"
    /\ result' = parse_dhcpv6_header(input)
    /\ UNCHANGED <<input, loop>>

Next == CallMessageType \/ CallOption \/ CallOptions \/ CallHeader

Spec == Init /\ [][Next]_vars

----------------------------------------------------------------------------
(* parse_dhcpv6_options taken one turn of many0's loop at a time *)

\* one turn of many0's loop at input i with acc collected so far, r being
\* the embedded parser's result on i: the loop goes on ("many0") with the
\* option pushed, returns ("assert", many0's result is handed to the ? and
\* the assert!), or unwinds with the panic of the embedded parser
many0_turn(i, acc, r) ==
    CASE r.status = "Err" ->
             [pc |-> "assert", cursor |-> i, collected |-> acc,
              result |-> Ok(i, acc)]
      [] r.status = "Panic" ->
             [pc |-> "parse_dhcpv6_options", cursor |-> i, collected |-> acc,
              result |-> r]
      [] OTHER ->
             IF r.rest = i
             THEN [pc |-> "assert", cursor |-> i, collected |-> acc,
                   result |-> Err(i, "Many0")]
             ELSE [pc |-> "many0", cursor |-> r.rest,
                   collected |-> Append(acc, r.value), result |-> Idle]

\* many0(parse_dhcpv6_option)(input) is entered
OptionsEnter ==
    /\ pc = "ready"
    /\ pc' = "many0"
    /\ cursor' = input
    /\ collected' = <<>>
    /\ iters' = 0
    /\ UNCHANGED <<input, result>>

\* one turn of the loop
turn_taken(t) ==
    /\ pc' = t.pc
    /\ cursor' = t.cursor
    /\ collected' = t.collected
    /\ result' = t.result

OptionsTurn ==
    /\ pc = "many0"
    /\ turn_taken(many0_turn(cursor, collected, parse_dhcpv6_option(cursor)))
    /\ iters' = iters + 1
    /\ UNCHANGED input

\* the ? on many0's result, assert!(rest.len() == 0) and the final Ok
OptionsAssert ==
    /\ pc = "assert"
    /\ pc' = "parse_dhcpv6_options"
    /\ result' = assert_rest_empty(result)
    /\ UNCHANGED <<input, loop>>

LoopNext == OptionsEnter \/ OptionsTurn \/ OptionsAssert

LoopSpec == Init /\ [][LoopNext]_vars

----------------------------------------------------------------------------
(* The wire contract the decoder is checked against: the option table *)

\* the "requires" column of the option table
LengthRule(code, L) ==
    CASE code = 3 -> L >= 12
      [] code \in {4, 16, 17} -> L >= 4
      [] code = 5 -> L >= 24
      [] code = 6 -> L % 2 = 0
      [] code \in {7, 19} -> L = 1
      [] code = 8 -> L = 2
      [] code = 11 -> L >= 11
      [] code = 12 -> L = 16
      [] code = 13 -> L >= 2
      [] code \in {14, 20} -> L = 0
      [] OTHER -> TRUE

RuledCodes == {3, 4, 5, 6, 7, 8, 11, 12, 13, 14, 16, 17, 19, 20}

\* 16-bit big-endian value at zero-based offset k of b
WordAt(b, k) == b[k + 1] * 256 + b[k + 2]

\* option code and length field of a buffer that holds them
CodeOf(b) == WordAt(b, 0)

LenOf(b) == WordAt(b, 2)

\* the L payload bytes of a buffer that holds a complete TLV
PayloadOf(b) == SubSeq(b, 5, 4 + LenOf(b))

\* the buffer starts with a complete TLV of a known code whose length obeys
\* the option's rule
CompleteTLV(b) ==
    /\ Len(b) >= 4
    /\ CodeOf(b) \in KnownCodes
    /\ LengthRule(CodeOf(b), LenOf(b))
    /\ Len(b) >= 4 + LenOf(b)

\* ... and, for a Status Code, whose text is well-formed UTF-8
WellFormedTLV(b) ==
    /\ CompleteTLV(b)
    /\ CodeOf(b) = 13 => from_utf8_ok(SubSeq(PayloadOf(b), 3, LenOf(b)))

\* the buffer is a concatenation of n >= 0 well-formed TLVs
RECURSIVE WellFormedRegion(_)
WellFormedRegion(b) ==
    \/ Len(b) = 0
    \/ /\ WellFormedTLV(b)
       /\ WellFormedRegion(Drop(b, 4 + LenOf(b)))

\* a known code whose TLV is cut short: inside the length field, or inside
\* the payload of a length that obeys the option's rule
CutShort(b) ==
    /\ Len(b) >= 2
    /\ CodeOf(b) \in KnownCodes
    /\ \/ Len(b) < 4
       \/ /\ LengthRule(CodeOf(b), LenOf(b))
          /\ Len(b) < 4 + LenOf(b)

\* bytes before the options region of a header buffer, 0 when the header is
\* not valid (bad type byte or missing fixed field)
HeaderLen(b) ==
    IF Len(b) >= 1 /\ b[1] \in {12, 13} /\ Len(b) >= 34 THEN 34
    ELSE IF Len(b) >= 1 /\ b[1] \in 1..11 /\ Len(b) >= 4 THEN 4
    ELSE 0

----------------------------------------------------------------------------
(* Claims *)

\* C1: for every options region that is not a concatenation of decodable
\* TLVs (some TLV fails to decode, or residual bytes remain),
\* parse_dhcpv6_options, and parse_dhcpv6_header when the region follows a
\* valid header, returns an ordinary error: it neither panics nor returns a
\* list of options.
C1_MalformedRegionIsError ==
    /\ (pc = "parse_dhcpv6_options" /\ ~WellFormedRegion(input))
          => result.status = "Err"
    /\ (pc = "parse_dhcpv6_header" /\ HeaderLen(input) > 0
           /\ ~WellFormedRegion(Drop(input, HeaderLen(input))))
          => result.status = "Err"

\* C2: for every known option code and every buffer cut short inside the
\* TLV, parse_dhcpv6_option returns a Truncated error (ErrorKind::Eof) and
\* does not panic.
C2_CutShortIsTruncated ==
    (pc = "parse_dhcpv6_option" /\ CutShort(input))
       => (result.status = "Err" /\ result.kind = "Eof")

\* the 2k bytes at zero-based offset k0 of b as big-endian 16-bit limbs
WordsAt(b, k0, k) == [j \in 1..k |-> WordAt(b, k0 + 2 * (j - 1))]

\* the bytes of b from zero-based offset k to its end
TailAt(b, k) == SubSeq(b, k + 1, Len(b))

\* the option the table prescribes for code and payload p
TableOption(code, p) ==
    CASE code = 1 -> [variant |-> "CliendID", duid |-> p]
      [] code = 2 -> [variant |-> "ServerID", duid |-> p]
      [] code = 3 -> [variant |-> "IdentityAssociationForNonTemporaryAddresses",
                      id |-> WordsAt(p, 0, 2), time_1 |-> WordsAt(p, 4, 2),
                      time_2 |-> WordsAt(p, 8, 2), options |-> TailAt(p, 12)]
      [] code = 4 -> [variant |-> "IdentityAssociationForTemporaryAddresses",
                      id |-> WordsAt(p, 0, 2), options |-> TailAt(p, 4)]
      [] code = 5 -> [variant |-> "IdentityAssociationAddress",
                      address |-> WordsAt(p, 0, 8),
                      prefered_lifetime |-> WordsAt(p, 16, 2),
                      valid_lifetime |-> WordsAt(p, 20, 2),
                      options |-> TailAt(p, 24)]
      [] code = 6 -> [variant |-> "OptionRequest",
                      options |-> WordsAt(p, 0, Len(p) \div 2)]
      [] code = 7 -> [variant |-> "Preference", pref_value |-> p[1]]
      [] code = 8 -> [variant |-> "ElapstedTime", elapsed_time |-> WordAt(p, 0)]
      [] code = 9 -> [variant |-> "RelayMessage", data |-> p]
      [] code = 11 -> [variant |-> "Authentication", protocol |-> p[1],
                       algorithm |-> p[2], rdm |-> p[3],
                       replay_detection |-> WordsAt(p, 3, 4),
                       authentication_information |-> TailAt(p, 11)]
      [] code = 12 -> [variant |-> "ServerUnicast", address |-> WordsAt(p, 0, 8)]
      [] code = 13 -> [variant |-> "StatusCode", code |-> WordAt(p, 0),
                       message |-> TailAt(p, 2)]
      [] code = 14 -> [variant |-> "RapidCommit"]
      [] code = 15 -> [variant |-> "UserClass", data |-> p]
      [] code = 16 -> [variant |-> "VendorClass",
                       enterprise_number |-> WordsAt(p, 0, 2), data |-> TailAt(p, 4)]
      [] code = 17 -> [variant |-> "VendorSpecificInformation",
                       enterprise_number |-> WordsAt(p, 0, 2), data |-> TailAt(p, 4)]
      [] code = 18 -> [variant |-> "InterfaceID", data |-> p]
      [] code = 19 -> [variant |-> "ReconfigureMessage", message_type |-> p[1]]
      [] code = 20 -> [variant |-> "ReconfigureAccept"]

\* C3 as stated: for every known option code and every buffer holding a
\* complete TLV whose length obeys the option's rule, parse_dhcpv6_option
\* returns the variant of that code with the fields and opaque tail the
\* option table prescribes.
C3_CompleteTLVDecodes ==
    (pc = "parse_dhcpv6_option" /\ CompleteTLV(input))
       => /\ result.status = "Ok"
          /\ result.value = TableOption(CodeOf(input), PayloadOf(input))

\* C3 amended: the same for every complete TLV except a Status Code whose
\* L - 2 text bytes are not well-formed UTF-8.
C3_WellFormedTLVDecodes ==
    (pc = "parse_dhcpv6_option" /\ WellFormedTLV(input))
       => /\ result.status = "Ok"
          /\ result.value = TableOption(CodeOf(input), PayloadOf(input))

\* C3 amended, second half: a complete Status Code TLV whose text is not
\* well-formed UTF-8 is refused with ErrorKind::Verify.
C3_InvalidTextRefused ==
    (pc = "parse_dhcpv6_option" /\ CompleteTLV(input) /\ ~WellFormedTLV(input))
       => (result.status = "Err" /\ result.kind = "Verify")

C3_Amended == C3_WellFormedTLVDecodes /\ C3_InvalidTextRefused

\* an Authentication TLV with a non-empty opaque tail has been decoded
C3_Witness ==
    /\ pc = "parse_dhcpv6_option"
    /\ WellFormedTLV(input)
    /\ CodeOf(input) = 11
    /\ LenOf(input) > 11
    /\ result.status = "Ok"

\* bytes a decoded option stood for on the wire: code, length field, payload
WireSize(o) ==
    4 + CASE o.variant \in {"CliendID", "ServerID"} -> Len(o.duid)
          [] o.variant = "IdentityAssociationForNonTemporaryAddresses" ->
                 12 + Len(o.options)
          [] o.variant = "IdentityAssociationForTemporaryAddresses" ->
                 4 + Len(o.options)
          [] o.variant = "IdentityAssociationAddress" -> 24 + Len(o.options)
          [] o.variant = "OptionRequest" -> 2 * Len(o.options)
          [] o.variant \in {"Preference", "ReconfigureMessage"} -> 1
          [] o.variant = "ElapstedTime" -> 2
          [] o.variant \in {"RelayMessage", "UserClass", "InterfaceID"} -> Len(o.data)
          [] o.variant = "Authentication" -> 11 + Len(o.authentication_information)
          [] o.variant = "ServerUnicast" -> 16
          [] o.variant = "StatusCode" -> 2 + Len(o.message)
          [] o.variant \in {"VendorClass", "VendorSpecificInformation"} ->
                 4 + Len(o.data)
          [] o.variant \in {"RapidCommit", "ReconfigureAccept"} -> 0

RECURSIVE WireSizes(_)
WireSizes(os) == IF Len(os) = 0 THEN 0 ELSE WireSize(Head(os)) + WireSizes(Tail(os))

\* C4: whenever parse_dhcpv6_options or parse_dhcpv6_header succeeds, the
\* returned remainder is empty and the decoded options account for every
\* byte of the options region.
C4_SuccessLeavesNothing ==
    /\ (pc = "parse_dhcpv6_options" /\ result.status = "Ok")
          => /\ result.rest = <<>>
             /\ WireSizes(result.value) = Len(input)
    /\ (pc = "parse_dhcpv6_header" /\ result.status = "Ok")
          => /\ result.rest = <<>>
             /\ HeaderLen(input) > 0
             /\ WireSizes(result.value.options) = Len(input) - HeaderLen(input)

\* parse_dhcpv6_options has succeeded on a region of several options
C4_Witness ==
    /\ pc = "parse_dhcpv6_options"
    /\ result.status = "Ok"
    /\ Len(result.value) >= 2
    /\ Len(input) > 8

\* C5: if parse_dhcpv6_option succeeds, the remainder is the input without
\* its first 4 + L bytes, L being the big-endian value at offsets 2-3; the
\* bytes after offset 4 + L do not influence the decoded option.
C5_OptionConsumesTLV ==
    (pc = "parse_dhcpv6_option" /\ result.status = "Ok")
       => /\ Len(input) >= 4
          /\ Len(input) >= 4 + LenOf(input)
          /\ result.rest = Drop(input, 4 + LenOf(input))
          /\ parse_dhcpv6_option(Prefix(input, 4 + LenOf(input)))
                = Ok(<<>>, result.value)

\* an Option Request followed by further bytes has been decoded
C5_Witness ==
    /\ pc = "parse_dhcpv6_option"
    /\ result.status = "Ok"
    /\ CodeOf(input) = 6
    /\ LenOf(input) >= 2
    /\ Len(result.rest) > 0

\* the enumerant the message-type list gives for a wire code
TypeName(b) ==
    CASE b = 1 -> "Solicit"
      [] b = 2 -> "Advertise"
      [] b = 3 -> "Request"
      [] b = 4 -> "Confirm"
      [] b = 5 -> "Renew"
      [] b = 6 -> "Rebind"
      [] b = 7 -> "Reply"
      [] b = 8 -> "Release"
      [] b = 9 -> "Decline"
      [] b = 10 -> "Reconfigure"
      [] b = 11 -> "InformationRequest"
      [] b = 12 -> "RelayForw"
      [] b = 13 -> "RelayRepl"

\* C6: for every successful parse_dhcpv6_header call the first byte alone
\* selects the variant: 12 or 13 gives RelayAgentServer with hop count =
\* byte 1, link address = bytes 2-17, peer address = bytes 18-33 and the
\* options decoded from byte 34 on; 1..11 gives ClientServer with
\* transaction id = the big-endian value of bytes 1-3, in 0..2^24-1, and the
\* options decoded from byte 4 on.  The stored message type is that of the
\* first byte.
C6_HeaderLayout ==
    (pc = "parse_dhcpv6_header" /\ result.status = "Ok")
       => /\ Len(input) >= 1
          /\ input[1] \in 1..13
          /\ result.value.message_type = TypeName(input[1])
          /\ input[1] \in {12, 13} =>
                /\ Len(input) >= 34
                /\ result.value.variant = "RelayAgentServer"
                /\ result.value.hop_count = input[2]
                /\ result.value.link_address = WordsAt(input, 2, 8)
                /\ result.value.peer_address = WordsAt(input, 18, 8)
                /\ parse_dhcpv6_options(Drop(input, 34))
                      = Ok(<<>>, result.value.options)
          /\ input[1] \in 1..11 =>
                /\ Len(input) >= 4
                /\ result.value.variant = "ClientServer"
                /\ result.value.transaction_id
                      = (input[2] * 256 + input[3]) * 256 + input[4]
                /\ result.value.transaction_id \in 0..16777215
                /\ parse_dhcpv6_options(Drop(input, 4))
                      = Ok(<<>>, result.value.options)

\* a relay header carrying an option has been decoded
C6_Witness ==
    /\ pc = "parse_dhcpv6_header"
    /\ result.status = "Ok"
    /\ input[1] = 13
    /\ Len(result.value.options) = 1

\* C7: parse_dhcpv6_message_type consumes one byte and maps 1..13 to the
\* enumerant of that code, returning the rest of the buffer; byte 0 and
\* bytes 14..255 fail with InvalidMessageType (ErrorKind::MapOpt), an empty
\* buffer fails with Truncated (ErrorKind::Eof).
C7_MessageType ==
    pc = "parse_dhcpv6_message_type"
       => /\ Len(input) = 0 => (result.status = "Err" /\ result.kind = "Eof")
          /\ (Len(input) >= 1 /\ input[1] \in 1..13) =>
                /\ result.status = "Ok"
                /\ result.value = TypeName(input[1])
                /\ result.rest = Tail(input)
          /\ (Len(input) >= 1 /\ input[1] \notin 1..13) =>
                (result.status = "Err" /\ result.kind = "MapOpt")

\* the last defined type has been classified, with bytes left over
C7_Witness ==
    /\ pc = "parse_dhcpv6_message_type"
    /\ Len(input) > 1
    /\ input[1] = 13
    /\ result.status = "Ok"

\* C8: for every 16-bit option code outside {1-9, 11-20}, parse_dhcpv6_option
\* fails with UnknownOptionCode (ErrorKind::Switch) whatever bytes follow
\* the code, and produces no option.
C8_UnknownCode ==
    (pc = "parse_dhcpv6_option" /\ Len(input) >= 2 /\ CodeOf(input) \notin KnownCodes)
       => /\ result.status = "Err"
          /\ result.kind = "Switch"
          /\ result.value = NoValue

\* the unassigned code 10 has been refused on an otherwise complete TLV
C8_Witness ==
    /\ pc = "parse_dhcpv6_option"
    /\ Len(input) >= 4
    /\ CodeOf(input) = 10
    /\ Len(input) >= 4 + LenOf(input)
    /\ result.status = "Err"

\* C9: for each option code with a length rule and every buffer holding a
\* complete code and length field, a length that violates the rule makes
\* parse_dhcpv6_option fail with LengthConstraintViolation (ErrorKind::Verify
\* raised at the length field), whatever payload follows; a length that
\* obeys the rule is not rejected by the length check.
C9_LengthRule ==
    (pc = "parse_dhcpv6_option" /\ Len(input) >= 4 /\ CodeOf(input) \in RuledCodes)
       => LET rejected == /\ result.status = "Err"
                          /\ result.kind = "Verify"
                          /\ result.rest = Drop(input, 2)
          IN  rejected <=> ~LengthRule(CodeOf(input), LenOf(input))

\* an IA_NA one byte short of its minimum has been refused, payload present
C9_Witness ==
    /\ pc = "parse_dhcpv6_option"
    /\ Len(input) > 4
    /\ CodeOf(input) = 3
    /\ LenOf(input) = 11
    /\ result.status = "Err"

\* the TLVs of a well-formed region, in wire order
RECURSIVE SplitTLVs(_)
SplitTLVs(b) ==
    IF Len(b) = 0 THEN <<>>
    ELSE <<Prefix(b, 4 + LenOf(b))>> \o SplitTLVs(Drop(b, 4 + LenOf(b)))

\* the list a region of well-formed TLVs decodes to: the decode of each TLV
DecodeEach(b) ==
    LET tlvs == SplitTLVs(b)
    IN  [j \in 1..Len(tlvs) |-> parse_dhcpv6_option(tlvs[j]).value]

\* C10: for every options region that is a concatenation of n >= 0
\* well-formed TLVs, parse_dhcpv6_options (and the options field of
\* parse_dhcpv6_header) returns exactly n options, the i-th being the decode
\* of the i-th TLV: wire order kept, nothing merged or dropped.
C10_OptionsInWireOrder ==
    /\ (pc = "parse_dhcpv6_options" /\ WellFormedRegion(input))
          => /\ result.status = "Ok"
             /\ result.value = DecodeEach(input)
             /\ Len(result.value) = Len(SplitTLVs(input))
    /\ (pc = "parse_dhcpv6_header" /\ HeaderLen(input) > 0
           /\ WellFormedRegion(Drop(input, HeaderLen(input))))
          => /\ result.status = "Ok"
             /\ result.value.options = DecodeEach(Drop(input, HeaderLen(input)))

\* three options decoded, the first two from TLVs of the same code with
\* different payloads and the third a different option
C10_Witness ==
    /\ pc = "parse_dhcpv6_options"
    /\ WellFormedRegion(input)
    /\ result.status = "Ok"
    /\ Len(result.value) = 3
    /\ result.value[1].variant = "CliendID"
    /\ result.value[2].variant = "CliendID"
    /\ result.value[1] # result.value[2]
    /\ result.value[3].variant # "CliendID"

\* C11 as stated, the bound on the number of turns: the loop takes at most
\* floor(length / 4) turns.
C11_TurnsBound == iters <= Len(input) \div 4

\* C11 amended, the bound: at most floor(length / 4) turns decode an option,
\* and the loop takes at most one turn more, the one that decodes nothing.
C11_DecodingTurnsBound ==
    /\ Len(collected) <= Len(input) \div 4
    /\ iters <= Len(input) \div 4 + 1
    /\ pc = "many0" => iters = Len(collected)

\* C11: a turn that decodes an option shrinks the remaining buffer by at
\* least 4 bytes and pushes exactly one option; the loop stops at the first
\* turn that decodes nothing, and no turn goes on without consuming input.
C11_TurnShrinks ==
    [][(pc = "many0")
          => /\ iters' = iters + 1
             /\ IF pc' = "many0"
                THEN /\ Len(cursor') <= Len(cursor) - 4
                     /\ Len(collected') = Len(collected) + 1
                ELSE /\ cursor' = cursor
                     /\ collected' = collected]_vars

\* C11: the loop terminates: the length of the remaining buffer is a
\* variant, at most length - 4 * turns while the loop goes on, and once the
\* loop has stopped only the ? and the assert! remain
C11_Terminates ==
    /\ pc \in {"ready", "many0", "assert", "parse_dhcpv6_options"}
    /\ pc = "many0" => /\ Len(cursor) <= Len(input) - 4 * iters
                       /\ cursor = Drop(input, Len(input) - Len(cursor))
    /\ pc = "assert" => result.status = "Ok"

\* C11: ... with the result parse_dhcpv6_options gives on that input.
C11_SameResult ==
    pc = "parse_dhcpv6_options" => result = parse_dhcpv6_options(input)

\* C11 amended: for every finite input the option loop terminates; each turn
\* that decodes an option shrinks the remaining buffer by at least 4 bytes,
\* the loop stops at the first turn that decodes nothing, at most
\* floor(length / 4) turns decode an option and the loop takes at most
\* floor(length / 4) + 1 turns in all.
C11_Amended ==
    /\ [](C11_DecodingTurnsBound /\ C11_SameResult /\ C11_Terminates)
    /\ C11_TurnShrinks

\* the loop has decoded three options and stopped at its fourth turn
C11_Witness ==
    /\ pc = "parse_dhcpv6_options"
    /\ Len(collected) = 3
    /\ iters = 4
    /\ result.status = "Ok"

\* C12: parse_dhcpv6_options has only two outcomes, success with an empty
\* remainder or the end-of-loop assertion firing, and never returns an error
\* value; hence parse_dhcpv6_header returns an error value only when the
\* message-type byte or a fixed-size header field is missing or invalid.
C12_TwoOutcomes ==
    /\ pc = "parse_dhcpv6_options"
          => \/ result.status = "Ok" /\ result.rest = <<>>
             \/ /\ result.status = "Panic"
                /\ result.kind = "assertion failed: rest.len() == 0"
    /\ (pc = "parse_dhcpv6_header" /\ result.status = "Err")
          => HeaderLen(input) = 0

====
